---------------------------- MODULE Spec2Model ----------------------------
(***************************************************************************)
(* Model of script.js of the Real-Estate ROI / NPV tool: the two           *)
(* calculators (calcROI, calcNPV) and the page glue around them (input     *)
(* reading and validation, debounced persistence, card animation, theme,   *)
(* tabs, reset).                                                           *)
(*                                                                         *)
(* JavaScript numbers are modelled as extended rationals [n, d]:           *)
(*   d > 0        the finite value n/d, in lowest terms;                   *)
(*   d = 0, n = 1   Infinity;   d = 0, n = -1   -Infinity;                  *)
(*   d = 0, n = 0   NaN.                                                   *)
(* Floating-point rounding and the sign of zero are not modelled.          *)
(***************************************************************************)
EXTENDS Integers, Sequences, FiniteSets, TLC

\* ------------------------------------------------------------------------
\* Bounds of the model
\* ------------------------------------------------------------------------

\* Largest horizon (years) among the calculator inputs that are enumerated.
MaxYears == 3

\* Frame callbacks one card animation takes (700 ms of frames in the page).
FramesPerAnimation == 2

\* Timer handles the page can have outstanding at once.
MaxTimers == 2

\* ------------------------------------------------------------------------
\* Number arithmetic
\* ------------------------------------------------------------------------

Abs(x) == IF x < 0 THEN -x ELSE x

Sign(x) == IF x > 0 THEN 1 ELSE IF x < 0 THEN -1 ELSE 0

RECURSIVE Gcd(_, _)
Gcd(a, b) == IF b = 0 THEN a ELSE Gcd(b, a % b)

\* The number n/d (d any integer), normalised.
Num(n, d) ==
  IF d = 0 THEN [n |-> Sign(n), d |-> 0]
  ELSE LET g == Gcd(Abs(n), Abs(d))
           s == IF d < 0 THEN -1 ELSE 1
       IN  [n |-> s * (n \div g), d |-> s * (d \div g)]

Int2Num(i) == [n |-> i, d |-> 1]

Zero == Int2Num(0)
One == Int2Num(1)
Infinity == [n |-> 1, d |-> 0]
NaN == [n |-> 0, d |-> 0]

\* Number.isFinite
IsFinite(a) == a.d # 0

IsNaN(a) == a.d = 0 /\ a.n = 0

\* a + b
Add(a, b) ==
  IF a.d = 0 \/ b.d = 0
  THEN IF IsNaN(a) \/ IsNaN(b) THEN NaN
       ELSE IF a.d = 0 /\ b.d = 0
            THEN (IF a.n = b.n THEN a ELSE NaN)
            ELSE (IF a.d = 0 THEN a ELSE b)
  ELSE LET g == Gcd(a.d, b.d)
           l == (a.d \div g) * b.d
       IN  Num(a.n * (l \div a.d) + b.n * (l \div b.d), l)

\* -a
Neg(a) == [n |-> -a.n, d |-> a.d]

\* a - b
Sub(a, b) == Add(a, Neg(b))

\* a * b
Mul(a, b) == Num(a.n * b.n, a.d * b.d)

\* a / b  (x/0 is +-Infinity, 0/0 is NaN)
Div(a, b) == Num(a.n * b.d, a.d * b.n)

\* a < b, a <= b, a > b (false when either side is NaN)
Less(a, b) == ~IsNaN(a) /\ ~IsNaN(b) /\ a.n * b.d < b.n * a.d
Leq(a, b) == ~IsNaN(a) /\ ~IsNaN(b) /\ a.n * b.d <= b.n * a.d
Greater(a, b) == Less(b, a)

\* Math.max(a, b)
MathMax(a, b) ==
  IF IsNaN(a) \/ IsNaN(b) THEN NaN ELSE IF Less(a, b) THEN b ELSE a

\* Math.floor(a)
MathFloor(a) == IF a.d = 0 THEN a ELSE Int2Num(a.n \div a.d)

\* Math.pow(a, t) for an integer t >= 0
RECURSIVE MathPow(_, _)
MathPow(a, t) == IF t = 0 THEN One ELSE Mul(a, MathPow(a, t - 1))


\* ------------------------------------------------------------------------
\* Constants & defaults
\* ------------------------------------------------------------------------

DEFAULTS ==
  [price |-> Int2Num(260000), reno |-> Int2Num(17000), mgmt |-> Int2Num(2639),
   tax |-> Int2Num(3022), rent |-> Int2Num(1700), discount |-> Int2Num(2),
   years |-> Int2Num(30)]

\* ------------------------------------------------------------------------
\* Calculation logic
\* ------------------------------------------------------------------------

\* const invest = price + reno;
InvestOf(values) == Add(values.price, values.reno)

\* const annualNet = rent * 12 - (mgmt + tax);
AnnualNetOf(values) ==
  Sub(Mul(values.rent, Int2Num(12)), Add(values.mgmt, values.tax))

\* A reading of the roi line without its zero test.
RoiOfUnguarded(annualNet, invest) == Mul(Div(annualNet, invest), Int2Num(100))

\* const roi = invest === 0 ? 0 : (annualNet / invest * 100);
RoiOf(annualNet, invest) ==
  IF invest = Zero THEN Zero ELSE Mul(Div(annualNet, invest), Int2Num(100))

\* const payback = annualNet > 0 ? invest / annualNet : Infinity;
PaybackOf(annualNet, invest) ==
  IF Greater(annualNet, Zero) THEN Div(invest, annualNet) ELSE Infinity

calcROI(values) ==
  LET invest == InvestOf(values)
      annualRent == Mul(values.rent, Int2Num(12))
      annualNet == AnnualNetOf(values)
  IN  [invest |-> invest, annualRent |-> annualRent,
       annualCosts |-> Add(values.mgmt, values.tax), annualNet |-> annualNet,
       roi |-> RoiOf(annualNet, invest), payback |-> PaybackOf(annualNet, invest)]

\* A reading of the horizon line that forgets the floor.
HorizonYearsNoFloor(years) == MathMax(One, years)

\* const years = Math.max(1, Math.floor(values.years));
HorizonYears(years) == MathMax(One, MathFloor(years))

\* A reading of the rate line that forgets the floor at -0.99.
RateNoFloor(discountPct) == Div(discountPct, Int2Num(100))

\* const r = Math.max(-0.99, discountPct / 100);
Rate(discountPct) == MathMax(Num(-99, 100), Div(discountPct, Int2Num(100)))

\* const factor = 1 / Math.pow(1 + r, t);
Factor(r, t) == Div(One, MathPow(Add(One, r), t))

\* A reading of the accumulation that assigns instead of adding.
AccumulateAssign(cumulative, pvVal) == pvVal

\* cumulative += pvVal;
Accumulate(cumulative, pvVal) == Add(cumulative, pvVal)

\* for (let t = 1; t <= years; t++){ ... rows.push(...) }
RECURSIVE NPVLoop(_, _, _, _, _, _)
NPVLoop(t, years, r, netAnnual, cumulative, rows) ==
  IF Leq(Int2Num(t), years)
  THEN LET factor == Factor(r, t)
           pvVal == Mul(netAnnual, factor)
           cum == Accumulate(cumulative, pvVal)
       IN  NPVLoop(t + 1, years, r, netAnnual, cum,
                   Append(rows, [year |-> Int2Num(t), net |-> netAnnual,
                                 factor |-> factor, pv |-> pvVal,
                                 cumulative |-> cum]))
  ELSE [cumulative |-> cumulative, rows |-> rows]

calcNPV(values) ==
  LET years == HorizonYears(values.years)
      r == Rate(values.discount)
      invest == InvestOf(values)
      netAnnual == AnnualNetOf(values)
      y0pv == Neg(invest)
      cum0 == Accumulate(Zero, y0pv)
      row0 == [year |-> Zero, net |-> Neg(invest), factor |-> One,
               pv |-> y0pv, cumulative |-> cum0]
      done == NPVLoop(1, years, r, netAnnual, cum0, <<row0>>)
  IN  [npv |-> done.cumulative, rows |-> done.rows,
       discountPct |-> values.discount, years |-> years]

\* ------------------------------------------------------------------------
\* Text <-> number conversions
\* ------------------------------------------------------------------------

\* String(x) / JSON text of the finite numbers that occur: <<text, number>>.
CanonicalTexts ==
  {<<"260000", Int2Num(260000)>>, <<"17000", Int2Num(17000)>>,
   <<"2639", Int2Num(2639)>>, <<"3022", Int2Num(3022)>>,
   <<"1700", Int2Num(1700)>>, <<"2", Int2Num(2)>>, <<"30", Int2Num(30)>>,
   <<"-5", Int2Num(-5)>>, <<"0", Int2Num(0)>>, <<"1", Int2Num(1)>>,
   <<"0.5", Num(1, 2)>>, <<"12", Int2Num(12)>>}

\* Other texts parseFloat turns into a number: a numeric prefix, an overflow.
OtherTexts == {<<"12abc", Int2Num(12)>>, <<"1e999", Infinity>>}

\* parseFloat(text): NaN for a text with no numeric prefix ("", "abc").
ParseFloat(text) ==
  LET hits == {e \in CanonicalTexts \cup OtherTexts : e[1] = text}
  IN  IF hits = {} THEN NaN ELSE (CHOOSE e \in hits : TRUE)[2]

\* String(x) for a finite number x (el.value = x).
ToText(x) == (CHOOSE e \in CanonicalTexts : e[2] = x)[1]

\* JSON.stringify of one number: non-finite numbers become null.
JsonOf(x) == IF IsFinite(x) THEN ToText(x) ELSE "null"

\* el.value = JSON.parse(text): null shows as the empty text.
FieldTextOfJson(text) == IF text = "null" THEN "" ELSE ToText(ParseFloat(text))

FieldIds == {"price", "reno", "mgmt", "tax", "rent", "discount", "years"}

\* ------------------------------------------------------------------------
\* State
\* ------------------------------------------------------------------------

VARIABLES
  values,   \* calculators: the InputSet under evaluation
  roiRes,   \* calculators: <<>> or <<the result of calcROI(values)>>
  npvRes,   \* calculators: <<>> or <<the result of calcNPV(values)>>
  setupState,        \* "pending", "returned" or "threw": the DOMContentLoaded handler
  handlersBound,     \* setup reached its addEventListener calls
  storeThrows,       \* localStorage throws on every access
  store,             \* localStorage: [inputs |-> <<>> or <<record of JSON texts>>,
                     \*                theme |-> "" (absent), "light" or "dark"]
  fields,            \* el.value of the seven inputs
  messages,          \* textContent of the seven "<id>-msg" elements
  themeLight,        \* documentElement has class theme-light
  switchChecked,     \* themeSwitch.checked
  selectedTab,       \* data-tab of the tab button with aria-selected="true", or "none"
  npvFieldsetHidden, \* fieldset[data-section="npv"].hidden
  npvPanelHidden,    \* #npv-panel.hidden
  resultsPanelHidden,\* hidden of the panel that contains the cards
  cards,             \* per card: textContent, dataset.current, pending frame callback
  tableInputs,       \* <<>> or <<the InputSet whose calcNPV rows fill #pv-merged-body>>
  timers,            \* handles of the pending setTimeout callbacks
  persistTimer,      \* the handle held by persistTimer (0: none yet)
  userActed          \* history: an input edit, blur, calculate click or reset
                     \* click has happened since the page was loaded

calcVars == <<values, roiRes, npvRes>>

pageVars ==
  <<setupState, handlersBound, storeThrows, store, fields, messages, themeLight,
    switchChecked, selectedTab, npvFieldsetHidden, npvPanelHidden,
    resultsPanelHidden, cards, tableInputs, timers, persistTimer, userActed>>

vars == <<calcVars, pageVars>>

\* ------------------------------------------------------------------------
\* The page as the HTML delivers it
\* ------------------------------------------------------------------------

CardIds == {"card-invest", "card-net", "card-roi", "card-payback"}

NoAnim == [pending |-> FALSE, end |-> Zero, fmt |-> "", elapsed |-> 0]

BlankCard ==
  [text |-> [fmt |-> "", phase |-> "blank", value |-> Zero],
   current |-> [phase |-> "unset", value |-> Zero],
   anim |-> NoAnim]

Sentinel == [fmt |-> "", phase |-> "sentinel", value |-> Zero]

EmptyStore == [inputs |-> <<>>, theme |-> ""]

HtmlTabs == {"roi", "none"}

\* The document before DOMContentLoaded: which tab button the markup selects
\* and whether it hides #npv-panel are given by the markup.
FreshPage(tab, panelHidden) ==
  /\ setupState = "pending"
  /\ handlersBound = FALSE
  /\ fields = [id \in FieldIds |-> ""]
  /\ messages = [id \in FieldIds |-> ""]
  /\ themeLight = FALSE
  /\ switchChecked = FALSE
  /\ selectedTab = tab
  /\ npvFieldsetHidden = FALSE
  /\ npvPanelHidden = panelHidden
  /\ resultsPanelHidden = TRUE
  /\ cards = [c \in CardIds |-> BlankCard]
  /\ tableInputs = <<>>
  /\ timers = {}
  /\ persistTimer = 0
  /\ userActed = FALSE

\* ------------------------------------------------------------------------
\* Read & validate inputs
\* ------------------------------------------------------------------------

readInputValue(text, fallback) ==
  LET v == ParseFloat(text) IN IF IsFinite(v) THEN v ELSE fallback

\* The vals object validateAndReadAll returns for the field texts f.
validateAndReadAll(f) ==
  [price |-> readInputValue(f["price"], DEFAULTS.price),
   reno |-> readInputValue(f["reno"], DEFAULTS.reno),
   mgmt |-> readInputValue(f["mgmt"], DEFAULTS.mgmt),
   tax |-> readInputValue(f["tax"], DEFAULTS.tax),
   rent |-> readInputValue(f["rent"], DEFAULTS.rent),
   discount |-> readInputValue(f["discount"], DEFAULTS.discount),
   years |-> MathMax(One, MathFloor(readInputValue(f["years"], DEFAULTS.years)))]

\* The seven setFieldMessage calls of validateAndReadAll.
FieldMessages(vals) ==
  [id \in FieldIds |->
     CASE id = "price" ->
            IF Leq(vals.price, Zero) THEN "Price must be positive" ELSE ""
       [] id = "reno" ->
            IF Less(vals.reno, Zero) THEN "Renovation must be non-negative" ELSE ""
       [] id = "mgmt" ->
            IF Less(vals.mgmt, Zero)
            THEN "Management fee must be non-negative" ELSE ""
       [] id = "tax" ->
            IF Less(vals.tax, Zero) THEN "Property tax must be non-negative" ELSE ""
       [] id = "rent" ->
            IF Less(vals.rent, Zero) THEN "Rent must be non-negative" ELSE ""
       [] id = "discount" ->
            IF Less(vals.discount, Int2Num(-99))
               \/ Greater(vals.discount, Int2Num(1000))
            THEN "Discount rate seems unusual" ELSE ""
       [] OTHER ->
            IF Leq(vals.years, Zero) THEN "Years must be at least 1" ELSE ""]

\* ------------------------------------------------------------------------
\* Local storage helpers, theme helpers
\* ------------------------------------------------------------------------

\* JSON.stringify(values)
JsonRecord(vals) ==
  [price |-> JsonOf(vals.price), reno |-> JsonOf(vals.reno),
   mgmt |-> JsonOf(vals.mgmt), tax |-> JsonOf(vals.tax),
   rent |-> JsonOf(vals.rent), discount |-> JsonOf(vals.discount),
   years |-> JsonOf(vals.years)]

\* The store after saveInputs(vals): the exception of a failing store is caught.
saveInputs(st, throws, vals) ==
  IF throws THEN st ELSE [st EXCEPT !.inputs = <<JsonRecord(vals)>>]

\* The store after applyTheme(theme): the exception is caught.
applyThemeStore(st, throws, theme) ==
  IF throws THEN st ELSE [st EXCEPT !.theme = theme]

\* populateInputs(Object.assign({}, DEFAULTS, saved || {})): the field texts.
populateInputs(saved) ==
  IF saved = <<>>
  THEN [id \in FieldIds |-> ToText(DEFAULTS[id])]
  ELSE [id \in FieldIds |-> FieldTextOfJson(saved[1][id])]

\* ------------------------------------------------------------------------
\* Cards
\* ------------------------------------------------------------------------

\* animateTo(el, target, fmt): the pending frame callback of el is cancelled and
\* step is requested; non-finite targets animate to 0.
animateTo(card, target, fmt) ==
  [card EXCEPT !.anim = [pending |-> TRUE,
                         end |-> IF IsFinite(target) THEN target ELSE Zero,
                         fmt |-> fmt, elapsed |-> 0]]

\* if (results.payback === Infinity) paybackEl.textContent = '-';
\* else animateTo(paybackEl, results.payback, ...)
PaybackCard(card, payback) ==
  IF payback = Infinity
  THEN [card EXCEPT !.text = Sentinel]
  ELSE animateTo(card, payback, "years")

writeResultsToCards(cs, results) ==
  [c \in CardIds |->
     CASE c = "card-invest" -> animateTo(cs[c], results.invest, "currency")
       [] c = "card-net" -> animateTo(cs[c], results.annualNet, "currency")
       [] c = "card-roi" -> animateTo(cs[c], results.roi, "percent")
       [] OTHER -> PaybackCard(cs[c], results.payback)]

\* One run of step(now) for a card whose callback is pending. Values shown
\* before the last frame lie between start and end and are abstracted to the
\* phase "mid"; the last frame (t = 1) shows end.
step(card) ==
  LET e == card.anim.elapsed + 1 IN
  IF ~card.anim.pending THEN card
  ELSE IF e < FramesPerAnimation
  THEN [text |-> [fmt |-> card.anim.fmt, phase |-> "mid", value |-> Zero],
        current |-> [phase |-> "mid", value |-> Zero],
        anim |-> [card.anim EXCEPT !.elapsed = e]]
  ELSE [text |-> [fmt |-> card.anim.fmt, phase |-> "end", value |-> card.anim.end],
        current |-> [phase |-> "end", value |-> card.anim.end],
        anim |-> NoAnim]

\* ------------------------------------------------------------------------
\* The calculators applied to enumerated input sets
\* ------------------------------------------------------------------------

PriceInputs == {Int2Num(0), Int2Num(10), Int2Num(-5)}
RenoInputs == {Int2Num(0), Int2Num(5)}
MgmtInputs == {Int2Num(0), Int2Num(7)}
TaxInputs == {Int2Num(0), Int2Num(3)}
RentInputs == {Int2Num(0), Num(1, 2), Int2Num(1)}
DiscountInputs ==
  {Int2Num(-150), Int2Num(-100), Int2Num(-99), Int2Num(-50), Int2Num(0),
   Int2Num(2), Int2Num(100)}
YearsInputs ==
  {Int2Num(-1), Int2Num(0), Num(1, 2), Int2Num(1), Num(5, 2), Int2Num(MaxYears)}

CalcInputSets ==
  [price : PriceInputs, reno : RenoInputs, mgmt : MgmtInputs, tax : TaxInputs,
   rent : RentInputs, discount : DiscountInputs, years : YearsInputs]

InitCalc ==
  /\ values \in CalcInputSets
  /\ roiRes = <<>>
  /\ npvRes = <<>>
  /\ FreshPage("roi", TRUE)
  /\ storeThrows = FALSE
  /\ store = EmptyStore

CallCalcROI ==
  /\ roiRes = <<>>
  /\ roiRes' = <<calcROI(values)>>
  /\ UNCHANGED <<values, npvRes, pageVars>>

CallCalcNPV ==
  /\ npvRes = <<>>
  /\ npvRes' = <<calcNPV(values)>>
  /\ UNCHANGED <<values, roiRes, pageVars>>

NextCalc == CallCalcROI \/ CallCalcNPV

SpecCalc == InitCalc /\ [][NextCalc]_vars

\* ------------------------------------------------------------------------
\* The page: bindings, initialization and event handlers
\* ------------------------------------------------------------------------

\* Texts the user types into a field.
TypedTexts(id) ==
  CASE id = "price" -> {"260000", "-5", "abc"}
    [] id = "rent" -> {"1700", "0"}
    [] id = "years" -> {"30", "0.5"}
    [] OTHER -> {ToText(DEFAULTS[id])}

Init ==
  /\ values = DEFAULTS
  /\ roiRes = <<>>
  /\ npvRes = <<>>
  /\ \E tab \in HtmlTabs, panelHidden \in BOOLEAN : FreshPage(tab, panelHidden)
  /\ storeThrows \in BOOLEAN
  /\ store = EmptyStore

\* A reading of showForTab that leaves the detail panel as it is.
showForTabPanelKeep(hidden) == hidden

\* showForTab: if (npvPanel) npvPanel.hidden = true;
showForTabPanel(hidden) == TRUE

\* A reading of the input listener that does not clear the previous timer.
clearTimeoutNoop(ts, handle) == ts

\* clearTimeout(persistTimer)
clearTimeout(ts, handle) == ts \ {handle}

FreeHandles(ts) == (1..MaxTimers) \ ts

\* setTimeout(...): a handle that is not outstanding.
setTimeout(ts) == CHOOSE h \in FreeHandles(ts) : \A g \in FreeHandles(ts) : h <= g

\* setup(), the DOMContentLoaded handler. loadTheme reads the store outside any
\* try block: with a failing store the exception leaves setup at its first line.
setup ==
  /\ setupState = "pending"
  /\ IF storeThrows
     THEN /\ setupState' = "threw"
          /\ UNCHANGED <<handlersBound, store, fields, themeLight, switchChecked,
                         npvFieldsetHidden, npvPanelHidden>>
     ELSE \E prefersDark \in BOOLEAN :
            LET theme == IF store.theme # "" THEN store.theme
                         ELSE IF prefersDark THEN "dark" ELSE "light"
            IN  /\ themeLight' = (theme = "light")
                /\ store' = applyThemeStore(store, storeThrows, theme)
                /\ fields' = populateInputs(store.inputs)
                /\ switchChecked' = ~(theme = "light")
                /\ npvFieldsetHidden' = ~(selectedTab = "npv")
                /\ npvPanelHidden' = showForTabPanel(npvPanelHidden)
                /\ handlersBound' = TRUE
                /\ setupState' = "returned"
  /\ UNCHANGED <<calcVars, storeThrows, messages, selectedTab, resultsPanelHidden,
                 cards, tableInputs, timers, persistTimer, userActed>>

\* The page is loaded again: the document is rebuilt, its timers and frame
\* callbacks are dropped, the store is kept.
Reload ==
  /\ setupState # "pending"
  /\ \E tab \in HtmlTabs, panelHidden \in BOOLEAN :
       /\ selectedTab' = tab
       /\ npvPanelHidden' = panelHidden
  /\ setupState' = "pending"
  /\ handlersBound' = FALSE
  /\ fields' = [id \in FieldIds |-> ""]
  /\ messages' = [id \in FieldIds |-> ""]
  /\ themeLight' = FALSE
  /\ switchChecked' = FALSE
  /\ npvFieldsetHidden' = FALSE
  /\ resultsPanelHidden' = TRUE
  /\ cards' = [c \in CardIds |-> BlankCard]
  /\ tableInputs' = <<>>
  /\ timers' = {}
  /\ persistTimer' = 0
  /\ userActed' = FALSE
  /\ UNCHANGED <<calcVars, storeThrows, store>>

\* The browser's store starts to throw (storage disabled, quota exhausted).
StoreFails ==
  /\ ~storeThrows
  /\ storeThrows' = TRUE
  /\ UNCHANGED <<calcVars, setupState, handlersBound, store, fields, messages,
                 themeLight, switchChecked, selectedTab, npvFieldsetHidden,
                 npvPanelHidden, resultsPanelHidden, cards, tableInputs, timers,
                 persistTimer, userActed>>

\* themeSwitch 'change': applyTheme(checked ? 'dark' : 'light')
ThemeChange ==
  /\ handlersBound
  /\ switchChecked' = ~switchChecked
  /\ LET theme == IF switchChecked' THEN "dark" ELSE "light"
     IN  /\ themeLight' = (theme = "light")
         /\ store' = applyThemeStore(store, storeThrows, theme)
  /\ UNCHANGED <<calcVars, setupState, handlersBound, storeThrows, fields,
                 messages, selectedTab, npvFieldsetHidden, npvPanelHidden,
                 resultsPanelHidden, cards, tableInputs, timers, persistTimer,
                 userActed>>

\* A tab button 'click'.
TabClick ==
  /\ handlersBound
  /\ \E tab \in {"roi", "npv"} :
       /\ selectedTab' = tab
       /\ npvFieldsetHidden' = ~(tab = "npv")
  /\ npvPanelHidden' = showForTabPanel(npvPanelHidden)
  /\ UNCHANGED <<calcVars, setupState, handlersBound, storeThrows, store, fields,
                 messages, themeLight, switchChecked, resultsPanelHidden, cards,
                 tableInputs, timers, persistTimer, userActed>>

\* The user types into a field: the 'input' listener restarts the debounce timer.
InputEdit ==
  /\ handlersBound
  /\ FreeHandles(clearTimeout(timers, persistTimer)) # {}
  /\ \E id \in FieldIds : \E text \in TypedTexts(id) :
       fields' = [fields EXCEPT ![id] = text]
  /\ LET cleared == clearTimeout(timers, persistTimer)
         h == setTimeout(cleared)
     IN  /\ timers' = cleared \cup {h}
         /\ persistTimer' = h
  /\ userActed' = TRUE
  /\ UNCHANGED <<calcVars, setupState, handlersBound, storeThrows, store, messages,
                 themeLight, switchChecked, selectedTab, npvFieldsetHidden,
                 npvPanelHidden, resultsPanelHidden, cards, tableInputs>>

\* A debounce timer expires: validateAndReadAll(); saveInputs(values).
TimerFires ==
  /\ \E h \in timers : timers' = timers \ {h}
  /\ LET vals == validateAndReadAll(fields)
     IN  /\ messages' = FieldMessages(vals)
         /\ store' = saveInputs(store, storeThrows, vals)
  /\ UNCHANGED <<calcVars, setupState, handlersBound, storeThrows, fields,
                 themeLight, switchChecked, selectedTab, npvFieldsetHidden,
                 npvPanelHidden, resultsPanelHidden, cards, tableInputs,
                 persistTimer, userActed>>

\* A field loses focus: validateAndReadAll(); saveInputs(values).
Blur ==
  /\ handlersBound
  /\ LET vals == validateAndReadAll(fields)
     IN  /\ messages' = FieldMessages(vals)
         /\ store' = saveInputs(store, storeThrows, vals)
  /\ userActed' = TRUE
  /\ UNCHANGED <<calcVars, setupState, handlersBound, storeThrows, fields,
                 themeLight, switchChecked, selectedTab, npvFieldsetHidden,
                 npvPanelHidden, resultsPanelHidden, cards, tableInputs, timers,
                 persistTimer>>

\* calcBtn 'click': calculate().
calculate ==
  /\ handlersBound
  /\ LET inputs == validateAndReadAll(fields)
         roi == calcROI(inputs)
     IN  /\ messages' = FieldMessages(inputs)
         /\ store' = saveInputs(store, storeThrows, inputs)
         /\ cards' = writeResultsToCards(cards, roi)
         /\ tableInputs' = <<inputs>>
  /\ resultsPanelHidden' = FALSE
  /\ npvPanelHidden' = ~(selectedTab = "npv")
  /\ userActed' = TRUE
  /\ UNCHANGED <<calcVars, setupState, handlersBound, storeThrows, fields,
                 themeLight, switchChecked, selectedTab, npvFieldsetHidden, timers,
                 persistTimer>>

\* const resultsPanel = qs('.panel-results'); if(resultsPanel) resultsPanel.hidden
\* = true;  qs is getElementById, and no element has the id ".panel-results":
\* resultsPanel is null and the panel keeps its state.
ResetResultsPanel(hidden) == hidden

\* resetBtn 'click'.
ResetClick ==
  /\ handlersBound
  /\ fields' = populateInputs(<<JsonRecord(DEFAULTS)>>)
  /\ store' = saveInputs(store, storeThrows, DEFAULTS)
  /\ resultsPanelHidden' = ResetResultsPanel(resultsPanelHidden)
  /\ npvPanelHidden' = TRUE
  /\ userActed' = TRUE
  /\ UNCHANGED <<calcVars, setupState, handlersBound, storeThrows, messages,
                 themeLight, switchChecked, selectedTab, npvFieldsetHidden, cards,
                 tableInputs, timers, persistTimer>>

\* An animation frame: every pending step callback runs once.
Frame ==
  /\ \E c \in CardIds : cards[c].anim.pending
  /\ cards' = [c \in CardIds |-> step(cards[c])]
  /\ UNCHANGED <<calcVars, setupState, handlersBound, storeThrows, store, fields,
                 messages, themeLight, switchChecked, selectedTab,
                 npvFieldsetHidden, npvPanelHidden, resultsPanelHidden,
                 tableInputs, timers, persistTimer, userActed>>

\* The page without its animation frames. Frame changes only the cards, and no
\* handler reads the cards to decide anything else, so what holds of the other
\* variables here holds with frames interleaved.
Next ==
  \/ setup
  \/ Reload
  \/ StoreFails
  \/ ThemeChange
  \/ TabClick
  \/ InputEdit
  \/ TimerFires
  \/ Blur
  \/ calculate
  \/ ResetClick

Spec == Init /\ [][Next]_vars

\* Calculations and the animation frames that follow them.
NextAnim ==
  \/ setup
  \/ InputEdit
  \/ calculate
  \/ Frame

SpecAnim == Init /\ [][NextAnim]_vars

\* ------------------------------------------------------------------------
\* Properties of the calculators (checked under SpecCalc)
\* ------------------------------------------------------------------------

\* max(1, floor(years)) as an integer, from the input alone.
ExpectedYears ==
  LET f == values.years.n \div values.years.d IN IF f >= 1 THEN f ELSE 1

\* C1: calcNPV returns exactly Y + 1 rows, Y = max(1, floor(years)); the i-th
\* row (from 0) has year = i, so the years run 0..Y ascending without gap or
\* repeat; and the returned years field is Y.
C1_RowsCountAndOrder ==
  npvRes # <<>> =>
    LET res == npvRes[1] IN
      /\ Len(res.rows) = ExpectedYears + 1
      /\ \A i \in 1..Len(res.rows) : res.rows[i].year = Int2Num(i - 1)
      /\ res.years = Int2Num(ExpectedYears)

\* C1 witness: a fractional horizon (2.5) has been floored to 2, giving 3 rows.
C1_Witness ==
  /\ npvRes # <<>>
  /\ values.years = Num(5, 2)
  /\ Len(npvRes[1].rows) = 3

\* The sum of the pv of rows 0..k-1 (the first k rows), added in row order.
RECURSIVE SumPv(_, _)
SumPv(rows, k) == IF k = 0 THEN Zero ELSE Add(SumPv(rows, k - 1), rows[k].pv)

\* C2: the cumulative of every row is the sum of the pv of the rows up to it;
\* row 0 has net = pv = -(price + reno) and factor 1; every later row has
\* net = rent*12 - (mgmt + tax); npv is the last cumulative, the sum of all pv.
C2_CumulativeIsRunningSum ==
  npvRes # <<>> =>
    LET res == npvRes[1]
        rows == res.rows
        minusInvest == Neg(Add(values.price, values.reno))
        netAnnual ==
          Sub(Mul(values.rent, Int2Num(12)), Add(values.mgmt, values.tax))
    IN
      /\ \A k \in 1..Len(rows) : rows[k].cumulative = SumPv(rows, k)
      /\ rows[1].net = minusInvest
      /\ rows[1].pv = minusInvest
      /\ rows[1].factor = One
      /\ \A k \in 2..Len(rows) : rows[k].net = netAnnual
      /\ res.npv = rows[Len(rows)].cumulative
      /\ res.npv = SumPv(rows, Len(rows))

\* C2 witness: a table of at least three rows with a non-zero investment and a
\* non-zero discounted annual flow.
C2_Witness ==
  /\ npvRes # <<>>
  /\ Len(npvRes[1].rows) >= 3
  /\ npvRes[1].rows[1].pv # Zero
  /\ npvRes[1].rows[2].pv # Zero
  /\ npvRes[1].rows[3].pv # npvRes[1].rows[2].pv

\* C3: calcROI never divides by zero for the ROI: with price + reno = 0 the roi
\* is 0, otherwise it is (rent*12 - (mgmt + tax)) / (price + reno) * 100.
C3_RoiNoDivisionByZero ==
  roiRes # <<>> =>
    LET invest == Add(values.price, values.reno)
        annualNet ==
          Sub(Mul(values.rent, Int2Num(12)), Add(values.mgmt, values.tax))
        roi == roiRes[1].roi
    IN
      /\ IsFinite(roi)
      /\ invest = Zero => roi = Zero
      /\ invest # Zero => roi = Mul(Div(annualNet, invest), Int2Num(100))

\* C3 witness: calcROI has run on a zero investment with a non-zero net income.
C3_Witness ==
  /\ roiRes # <<>>
  /\ Add(values.price, values.reno) = Zero
  /\ roiRes[1].annualNet # Zero

\* max(-0.99, d/100) from the input alone.
ExpectedRate ==
  IF values.discount.n < -99 * values.discount.d
  THEN Num(-99, 100)
  ELSE Num(values.discount.n, 100 * values.discount.d)

C4_SentinelWhilePaybackInfinite ==
  (tableInputs # <<>> /\ calcROI(tableInputs[1]).payback = Infinity)
    => cards["card-payback"].text = Sentinel

\* A well-formed InputSet: five finite non-negative amounts, a finite discount
\* and an integer horizon >= 1.
WellFormedInputSet(v) ==
  /\ \A x \in {v.price, v.reno, v.mgmt, v.tax, v.rent} :
       IsFinite(x) /\ Leq(Zero, x)
  /\ IsFinite(v.discount)
  /\ v.years.d = 1 /\ v.years.n >= 1

\* C6: whatever the fields hold, the value set calculate hands to calcROI and
\* calcNPV is a well-formed InputSet (amounts finite and non-negative, discount
\* finite, years an integer >= 1).
C6_CalculatorsSeeWellFormedInputs ==
  tableInputs # <<>> => WellFormedInputSet(tableInputs[1])

\* C7: a store that throws is silently ignored: setup still returns normally,
\* having populated the inputs and bound the handlers.
C7_SetupSurvivesFailingStore ==
  setupState # "pending" => (setupState = "returned" /\ handlersBound)

\* C8: with a working store, at most one debounce timer is pending (the one
\* persistTimer holds), and once none is pending and an edit, blur, calculate or
\* reset has happened (or a record was loaded), the persisted record is the
\* validated reading of the current fields.
C8_PersistedIsValidatedReading ==
  (handlersBound /\ ~storeThrows) =>
    /\ Cardinality(timers) <= 1
    /\ timers \subseteq {persistTimer}
    /\ (timers = {} /\ (userActed \/ store.inputs # <<>>)) =>
         store.inputs = <<JsonRecord(validateAndReadAll(fields))>>

\* C8 witness: after an edit to a text that is no number, the timer has expired
\* and the record holds the default in its place.
C8_Witness ==
  /\ handlersBound /\ ~storeThrows /\ userActed
  /\ persistTimer # 0 /\ timers = {}
  /\ fields["price"] = "abc" /\ fields["years"] = "0.5"
  /\ store.inputs # <<>>
  /\ store.inputs[1].price = "260000" /\ store.inputs[1].years = "1"

\* C9: after setup the NPV detail panel is visible only if the selected tab is
\* the NPV tab.
C9_NpvPanelOnlyOnNpvTab ==
  handlersBound => (~npvPanelHidden => selectedTab = "npv")

\* C9 witness: a calculate on the NPV tab has revealed the panel.
C9_Witness ==
  /\ handlersBound
  /\ tableInputs # <<>>
  /\ selectedTab = "npv"
  /\ ~npvPanelHidden

\* C10: a reset click after a calculate leaves no results displayed: the
\* results panel and the NPV detail panel are hidden, the seven fields hold the
\* defaults and (the store working) the persisted record is the defaults.
\* Stated of the reset steps taken with the results and the detail panel
\* showing and a field edited: no other handler hides the detail panel and
\* rewrites a field in one step.
C10_ResetHidesResults ==
  [][(/\ ResetClick
      /\ tableInputs # <<>> /\ ~resultsPanelHidden /\ ~npvPanelHidden
      /\ fields # fields'
      /\ ~storeThrows) =>
       /\ resultsPanelHidden'
       /\ npvPanelHidden'
       /\ fields' = [id \in FieldIds |-> ToText(DEFAULTS[id])]
       /\ store'.inputs = <<JsonRecord(DEFAULTS)>>]_vars

=============================================================================
